---- MODULE Spec2Model ----
(***************************************************************************)
(* Model of ViserProxyManager (src/viser_proxy_manager.py): the session    *)
(* registry, the round-robin port scan of start_server, get_server,        *)
(* stop_server, the HTTP proxy route and the WebSocket relay route, driven  *)
(* as in src/app.py.                                                       *)
(***************************************************************************)
EXTENDS Integers, Sequences, FiniteSets, TLC

\* ------------------------------------------------------------------ bounds

\* min_local_port's default value.
MinPort == 8000

\* Size of the configured port range (max_local_port - min_local_port + 1).
NumPorts == 3

MaxPort == MinPort + NumPorts - 1

Ports == MinPort..MaxPort

\* Session hashes handed in by the UI framework (opaque strings).
SessionIds == {"s1", "s2", "s3"}

\* A ViserServer object: the port it was constructed with, and a tag that
\* tells it from the other object on that port that is still referenced.
Handles == [port : Ports, gen : {0, 1}]

\* Python's None for a registry lookup that finds nothing.
NoServer == [port |-> 0, gen |-> 0]

VARIABLES
    server_from_session_hash,  \* self._server_from_session_hash: id -> handle
    last_port,                 \* self._last_port
    running,                   \* the ViserServer objects that are started and not stopped
    extBound,                  \* ports of the range bound by other processes
    ret,                       \* outcome of the last manager call (or environment event)
    http,                      \* the HTTP proxy request in flight
    th,                        \* the manager calls in progress, one per worker thread
    run,                       \* observer: ports returned since the range was last all free
    runLive,                   \* observer: no external bind since then
    runClean,                  \* observer: no launch refused with OSError since then
    runBase,                   \* observer: _last_port when the range was last all free
    request,                   \* the inbound HTTP request the router is handed
    proxied_req,               \* what the HTTP route made of it: the request built for the backend
    ws,                        \* the WebSocket relay: the handler, its two tasks, the two sockets
    wire                       \* the frames of the relay: sent, queued and delivered

managerVars == <<server_from_session_hash, last_port, running, extBound, ret>>

observerVars == <<run, runLive, runClean, runBase>>

wireVars == <<request, proxied_req, ws, wire>>

vars == <<managerVars, http, th, observerVars, wireVars>>

\* ------------------------------------------------------------- the OS view

\* Ports some running backend listens on.
BackendPorts(rs) == {h.port : h \in rs}

\* Ports a bind() to 127.0.0.1:<port> fails on.
BoundPorts(rs, ext) == BackendPorts(rs) \cup ext

\* server.get_port()
get_port(h) == h.port

\* ------------------------------------------------------------- start_server

port_range_size == MaxPort - MinPort + 1

\* Mutant: the scan always starts at the bottom of the range.
start_port_of_Bottom(last) == MinPort

start_port_of(last) == ((last + 1 - MinPort) % port_range_size) + MinPort

\* Mutant: the offset is added without wrapping around the range.
port_at_NoWrap(start_port, offset) == start_port + offset

port_at(start_port, offset) ==
    ((start_port - MinPort + offset) % port_range_size) + MinPort

\* Mutant: the probe bind is not made, every port passes.
PortAvailable_NoProbe(port, bound) == TRUE

\* s.bind(("127.0.0.1", port)) succeeds.
PortAvailable(port, bound) == port \notin bound

\* viser.ViserServer(port=port) at the n-th launch of one call (n counts from
\* 0): the first `refused` launches raise OSError, the one after them does
\* `last` ("ok", or "Error" for any other exception).
LaunchOutcome(n, refused, last) == IF n < refused THEN "OSError" ELSE last

\* The for loop of start_server: the ports are tried once each, in cyclic
\* order from start_port; a port whose probe bind or whose launch raises
\* OSError is skipped; any other exception of the launch leaves the call.
RECURSIVE Scan(_, _, _, _, _, _)
Scan(start_port, offset, bound, refused, last, skipped) ==
    IF offset = port_range_size
    THEN [outcome |-> "RuntimeError", port |-> 0, skipped |-> skipped]
    ELSE LET port == port_at(start_port, offset)
             launch == LaunchOutcome(Cardinality(skipped), refused, last)
         IN  IF ~PortAvailable(port, bound)
             THEN Scan(start_port, offset + 1, bound, refused, last, skipped)
             ELSE IF launch = "ok"
             THEN [outcome |-> "ok", port |-> port, skipped |-> skipped]
             ELSE IF launch = "OSError"
             THEN Scan(start_port, offset + 1, bound, refused, last,
                       skipped \cup {port})
             ELSE [outcome |-> "LaunchError", port |-> 0, skipped |-> skipped]

\* The registry after start_server's assignment.
Recorded(reg, server_id, h) == [reg EXCEPT ![server_id] = h]

\* ------------------------------------------------------------- actions

\* The worker threads the UI framework runs the manager's calls on.
Threads == {"t1", "t2", "t3"}

IdleThread == [pc |-> "idle", id |-> "", start_port |-> 0, offset |-> 0,
               port |-> 0, h |-> NoServer]

NoCall == [op |-> "none", id |-> "", outcome |-> "ok", handle |-> NoServer,
           restart |-> NoServer, skipped |-> FALSE]

\* No request at the HTTP route: nothing inbound, nothing built.
NoRequest == [method |-> "", server_id |-> "", proxy_path |-> "", query |-> "",
              headers |-> <<>>, body |-> ""]

NoProxied == [status |-> 0, method |-> "", port |-> 0, path |-> "", query |-> "",
              headers |-> <<>>, content |-> ""]

\* No connection at the WebSocket route.  pc is the handler's position, fwd
\* and bwd are forward_task and backward_task, target is the backend the dial
\* reached, close_code the code the handler closed the client socket with (0:
\* websocket.close was not called).
IdleRelay == [pc |-> "idle", server_id |-> "", port |-> 0, target |-> NoServer,
              dialed |-> FALSE, fwd |-> "none", fwd_data |-> 0,
              bwd |-> "none", bwd_data |-> 0, close_code |-> 0,
              client_gone |-> FALSE, backend_gone |-> FALSE,
              target_closed |-> FALSE]

\* No frame sent yet on either leg.
NoFrames == [nC |-> 0, inC |-> <<>>, toB |-> <<>>,
             nB |-> 0, inB |-> <<>>, toC |-> <<>>]

Init ==
    /\ request = NoRequest
    /\ proxied_req = NoProxied
    /\ ws = IdleRelay
    /\ wire = NoFrames
    /\ server_from_session_hash = [s \in SessionIds |-> NoServer]
    /\ last_port = MinPort - 1
    /\ running = {}
    /\ extBound = {}
    /\ ret = NoCall
    /\ http = [pc |-> "idle", server_id |-> "", port |-> 0, status |-> 0,
               delivered |-> NoServer]
    /\ th = [t \in Threads |-> IdleThread]
    /\ run = <<>>
    /\ runLive = TRUE
    /\ runClean = TRUE
    /\ runBase = MinPort - 1

\* The handle stop_server stopped, when the call before this one was a
\* successful stop_server of the same id.
JustStopped(server_id) ==
    IF ret.op = "stop" /\ ret.outcome = "ok" /\ ret.id = server_id
    THEN ret.handle ELSE NoServer

\* The identity of a newly constructed ViserServer on `port`: one that no
\* object still referenced (`refs`) has.
NewHandle(port, refs) ==
    IF [port |-> port, gen |-> 0] \in refs
    THEN [port |-> port, gen |-> 1]
    ELSE [port |-> port, gen |-> 0]

\* The backends after viser.ViserServer(port=port) started one.
Launched(rs, h) == rs \cup {h}

\* Mutant: the mapping is written before the launch, so a failed call leaves
\* the entry of the id pointing at a backend that never started.
StartServer_RecordFirst(server_id) ==
    /\ \E refused \in 0..Cardinality(Ports \ BoundPorts(running, extBound)),
          last \in {"ok", "Error"} :
         LET res == Scan(start_port_of(last_port), 0,
                         BoundPorts(running, extBound), refused, last, {})
             h == NewHandle(IF res.outcome = "ok" THEN res.port
                            ELSE start_port_of(last_port),
                            {ret.handle, ret.restart})
         IN  /\ server_from_session_hash' =
                   Recorded(server_from_session_hash, server_id, h)
             /\ IF res.outcome = "ok"
                THEN /\ running' = Launched(running, h)
                     /\ last_port' = res.port
                ELSE UNCHANGED <<running, last_port>>
             /\ ret' = [op |-> "start", id |-> server_id, outcome |-> res.outcome,
                        handle |-> IF res.outcome = "ok" THEN h ELSE NoServer,
                        restart |-> JustStopped(server_id),
                        skipped |-> res.skipped # {}]
    /\ UNCHANGED extBound

StartServer(server_id) ==
    /\ \E refused \in 0..Cardinality(Ports \ BoundPorts(running, extBound)),
          last \in {"ok", "Error"} :
         LET res == Scan(start_port_of(last_port), 0,
                         BoundPorts(running, extBound), refused, last, {})
             h == NewHandle(res.port, {ret.handle, ret.restart})
         IN  IF res.outcome = "ok"
             THEN /\ running' = Launched(running, h)
                  /\ server_from_session_hash' =
                        Recorded(server_from_session_hash, server_id, h)
                  /\ last_port' = res.port
                  /\ ret' = [op |-> "start", id |-> server_id, outcome |-> "ok",
                             handle |-> h, restart |-> JustStopped(server_id),
                             skipped |-> res.skipped # {}]
             ELSE /\ UNCHANGED <<running, server_from_session_hash, last_port>>
                  /\ ret' = [op |-> "start", id |-> server_id,
                             outcome |-> res.outcome, handle |-> NoServer,
                             restart |-> JustStopped(server_id),
                             skipped |-> res.skipped # {}]
    /\ UNCHANGED extBound

\* Mutant: the lookup is dict.get, which answers None for an absent id.
GetServer_Default(server_id) ==
    /\ ret' = [op |-> "get", id |-> server_id, outcome |-> "ok",
               handle |-> server_from_session_hash[server_id],
               restart |-> NoServer, skipped |-> FALSE]
    /\ UNCHANGED <<server_from_session_hash, last_port, running, extBound>>

GetServer(server_id) ==
    /\ ret' = IF server_from_session_hash[server_id] = NoServer
              THEN [op |-> "get", id |-> server_id, outcome |-> "KeyError",
                    handle |-> NoServer, restart |-> NoServer, skipped |-> FALSE]
              ELSE [op |-> "get", id |-> server_id, outcome |-> "ok",
                    handle |-> server_from_session_hash[server_id],
                    restart |-> NoServer, skipped |-> FALSE]
    /\ UNCHANGED <<server_from_session_hash, last_port, running, extBound>>

\* dict.pop(server_id): the registry without the entry.
Popped(reg, server_id) == [reg EXCEPT ![server_id] = NoServer]

\* Mutant: the entry is popped and the backend is never stopped.
Stopped_Never(rs, h) == rs

\* ViserServer.stop(): the backend no longer runs and its port is free.
Stopped(rs, h) == rs \ {h}

StopServer(server_id) ==
    /\ IF server_from_session_hash[server_id] = NoServer
       THEN /\ ret' = [op |-> "stop", id |-> server_id, outcome |-> "KeyError",
                       handle |-> NoServer, restart |-> NoServer,
                       skipped |-> FALSE]
            /\ UNCHANGED <<server_from_session_hash, running>>
       ELSE LET h == server_from_session_hash[server_id]
            IN  /\ server_from_session_hash' =
                      Popped(server_from_session_hash, server_id)
                /\ running' = Stopped(running, h)
                /\ ret' = [op |-> "stop", id |-> server_id, outcome |-> "ok",
                           handle |-> h, restart |-> NoServer, skipped |-> FALSE]
    /\ UNCHANGED <<last_port, extBound>>

\* Another process binds a free port of the range.
ExternalBind(p) ==
    /\ p \notin BoundPorts(running, extBound)
    /\ extBound' = extBound \cup {p}
    /\ ret' = NoCall
    /\ UNCHANGED <<server_from_session_hash, last_port, running>>

\* That process releases it.
ExternalRelease(p) ==
    /\ p \in extBound
    /\ extBound' = extBound \ {p}
    /\ ret' = NoCall
    /\ UNCHANGED <<server_from_session_hash, last_port, running>>

\* The calls of the manager's API, as src/app.py makes them, one at a time.
Next ==
    \/ \E id \in SessionIds : StartServer(id) /\ UNCHANGED <<http, th, observerVars, wireVars>>
    \/ \E id \in SessionIds : GetServer(id) /\ UNCHANGED <<http, th, observerVars, wireVars>>
    \/ \E id \in SessionIds : StopServer(id) /\ UNCHANGED <<http, th, observerVars, wireVars>>

Spec == Init /\ [][Next]_vars

\* ------------------------------------------------------------- observer
\* The ports start_server returned, in order, since the range was last all
\* free (the window of the round-robin property).

CyclicAfter(base, i) == ((base - MinPort + i) % port_range_size) + MinPort

Allocated == ret'.op = "start" /\ ret'.outcome = "ok"

ObserveRun ==
    LET appended == IF Allocated /\ runLive /\ Len(run) < port_range_size
                    THEN Append(run, get_port(ret'.handle))
                    ELSE run
        live == runLive /\ runClean /\ ~(extBound' \ extBound # {})
        over == ~live \/ Len(appended) = port_range_size
    IN  IF over /\ BoundPorts(running', extBound') = {}
        THEN /\ run' = <<>>
             /\ runLive' = TRUE
             /\ runClean' = TRUE
             /\ runBase' = last_port'
        ELSE IF ~live
        THEN /\ run' = <<>>
             /\ runLive' = FALSE
             /\ runClean' = TRUE
             /\ runBase' = MinPort - 1
        ELSE /\ run' = appended
             /\ runLive' = TRUE
             /\ runClean' = ~(Allocated /\ ret'.skipped)
             /\ runBase' = runBase

\* The sessions of the round-robin runs.
RoundRobinIds == {"s1", "s2"}

NextRoundRobin ==
    \/ \E id \in RoundRobinIds : StartServer(id) /\ ObserveRun /\ UNCHANGED <<http, th, wireVars>>
    \/ \E id \in RoundRobinIds : StopServer(id) /\ ObserveRun /\ UNCHANGED <<http, th, wireVars>>
    \/ \E p \in Ports : ExternalBind(p) /\ ObserveRun /\ UNCHANGED <<http, th, wireVars>>
    \/ \E p \in Ports : ExternalRelease(p) /\ ObserveRun /\ UNCHANGED <<http, th, wireVars>>

SpecRoundRobin == Init /\ [][NextRoundRobin]_vars


Registered == {id \in SessionIds : server_from_session_hash[id] # NoServer}

FreePorts == Ports \ BoundPorts(running, extBound)

\* C1: no two sessions that are active at the same time are assigned the
\* same port.
C1_DistinctPorts ==
    \A a, b \in Registered :
        a # b => get_port(server_from_session_hash[a])
                    # get_port(server_from_session_hash[b])

\* C1 witness: every port of the range is held by its own active session, one
\* of them started again after a stop.
C1_Witness ==
    /\ Cardinality(Registered) = NumPorts
    /\ ret.op = "start" /\ ret.outcome = "ok" /\ ret.restart # NoServer

\* C2: every running backend is the registry's entry of some session id, so
\* no backend (and no port) is left running outside the registry; a second
\* start_server on an active id breaks it.
C2_NoLeakedBackend ==
    \A h \in running : \E id \in SessionIds : server_from_session_hash[id] = h

C5_GetAbsentFails ==
    /\ Registered = {}
    /\ [][\A id \in SessionIds :
            /\ (server_from_session_hash[id] = NoServer
                /\ server_from_session_hash'[id] # NoServer)
                  => ret'.op = "start" /\ ret'.id = id /\ ret'.outcome = "ok"
            /\ (ret'.op = "stop" /\ ret'.id = id)
                  => server_from_session_hash'[id] = NoServer
            /\ (ret'.op = "get" /\ ret'.id = id
                /\ server_from_session_hash[id] = NoServer)
                  => ret'.outcome = "KeyError" /\ ret'.handle = NoServer]_vars

\* C5 witness: get_server raised KeyError for an absent id while other
\* sessions are active.
C5_Witness ==
    /\ ret.op = "get" /\ ret.outcome = "KeyError"
    /\ Registered # {} /\ ret.id \notin Registered

\* C6: stop_server on an id that is not in the registry does not raise.
C6_StopIdempotent == ~(ret.op = "stop" /\ ret.outcome = "KeyError")

C8_FailedStartUnwinds ==
    [][(ret'.op = "start" /\ ret'.outcome # "ok") =>
         /\ server_from_session_hash' = server_from_session_hash
         /\ running' = running
         /\ BoundPorts(running', extBound') = BoundPorts(running, extBound)
         /\ last_port' = last_port]_vars

\* C8 witness: a launch raised out of start_server while another session is
\* active.
C8_Witness ==
    /\ ret.op = "start" /\ ret.outcome = "LaunchError"
    /\ Registered # {} /\ ret.id \notin Registered

\* ------------------------------------------------------------- concurrent calls
\* start_server, get_server and stop_server are plain functions the UI
\* framework runs on worker threads: two calls interleave between any two of
\* their accesses to the registry, to _last_port and to the sockets.  Each
\* thread serves one browser session (its own session hash): the page load
\* starts the session's server, the unload stops it.

\* The sessions of the concurrent and of the proxied runs.
TwoSessions == {"s1", "s2"}

\* request.session_hash of the calls a thread runs.
SessionOf(t) == IF t = "t1" THEN "s1" ELSE IF t = "t2" THEN "s2" ELSE "s3"

\* Mutant: the probe socket is closed as soon as the bind succeeded, before
\* the backend is launched.
ProbePorts_Released(t) == {}

\* Ports held by the probe sockets of the other threads: a probe socket stays
\* bound from its bind to the end of its with block.
ProbePorts(t) ==
    {th[u].port : u \in {v \in Threads \ {t} :
                            th[v].pc \in {"launch", "record", "setlast", "close"}}}

\* Handles some thread still holds in a local variable.
ThreadHandles == {th[u].h : u \in Threads}

\* Lines 161-164: _last_port is read and the scan's first port computed.
T_StartBegin(t) ==
    /\ th[t].pc = "idle"
    /\ server_from_session_hash[SessionOf(t)] = NoServer
    /\ th' = [th EXCEPT ![t] = [IdleThread EXCEPT !.pc = "scan",
                                   !.id = SessionOf(t),
                                   !.start_port = start_port_of(last_port)]]
    /\ UNCHANGED <<managerVars, http, observerVars, wireVars>>

\* Lines 167-174 and 185: the next port of the scan is probed, or the loop is
\* over and RuntimeError leaves the call.
T_Probe(t) ==
    /\ th[t].pc = "scan"
    /\ IF th[t].offset = port_range_size
       THEN th' = [th EXCEPT ![t] = IdleThread]
       ELSE LET port == port_at(th[t].start_port, th[t].offset)
            IN  IF PortAvailable(port, BoundPorts(running, extBound)
                                          \cup ProbePorts(t))
                THEN th' = [th EXCEPT ![t].pc = "launch", ![t].port = port]
                ELSE th' = [th EXCEPT ![t].offset = @ + 1]
    /\ UNCHANGED <<managerVars, http, observerVars, wireVars>>

\* Line 176: the backend is launched while the probe socket is still bound;
\* OSError releases the probe and goes on with the scan, any other exception
\* releases it and leaves the call.
T_Launch(t) ==
    /\ th[t].pc = "launch"
    /\ \E launch \in {"ok", "OSError", "Error"} :
         IF launch = "ok"
         THEN LET h == NewHandle(th[t].port, ThreadHandles)
              IN  /\ running' = Launched(running, h)
                  /\ th' = [th EXCEPT ![t].pc = "record", ![t].h = h]
         ELSE IF launch = "OSError"
         THEN /\ th' = [th EXCEPT ![t].pc = "scan", ![t].port = 0,
                                  ![t].offset = @ + 1]
              /\ UNCHANGED running
         ELSE /\ th' = [th EXCEPT ![t] = IdleThread]
              /\ UNCHANGED running
    /\ UNCHANGED <<server_from_session_hash, last_port, extBound, ret, http,
                   observerVars, wireVars>>

\* Line 177.
T_Record(t) ==
    /\ th[t].pc = "record"
    /\ server_from_session_hash' =
          Recorded(server_from_session_hash, th[t].id, th[t].h)
    /\ th' = [th EXCEPT ![t].pc = "setlast"]
    /\ UNCHANGED <<last_port, running, extBound, ret, http, observerVars, wireVars>>

\* Line 178.
T_SetLast(t) ==
    /\ th[t].pc = "setlast"
    /\ last_port' = th[t].port
    /\ th' = [th EXCEPT ![t].pc = "close"]
    /\ UNCHANGED <<server_from_session_hash, running, extBound, ret, http,
                   observerVars, wireVars>>

\* Line 179: the return leaves the with block, which closes the probe socket.
T_Close(t) ==
    /\ th[t].pc = "close"
    /\ th' = [th EXCEPT ![t] = IdleThread]
    /\ UNCHANGED <<managerVars, http, observerVars, wireVars>>

\* Line 206, the pop (KeyError leaves the call when the id is absent).
T_StopPop(t) ==
    /\ th[t].pc = "idle"
    /\ IF server_from_session_hash[SessionOf(t)] = NoServer
       THEN UNCHANGED <<th, server_from_session_hash>>
       ELSE /\ th' = [th EXCEPT ![t] =
                        [IdleThread EXCEPT !.pc = "stopping",
                            !.id = SessionOf(t),
                            !.h = server_from_session_hash[SessionOf(t)]]]
            /\ server_from_session_hash' =
                  Popped(server_from_session_hash, SessionOf(t))
    /\ UNCHANGED <<last_port, running, extBound, ret, http, observerVars, wireVars>>

\* Line 206, the stop() of the popped server.
T_StopStop(t) ==
    /\ th[t].pc = "stopping"
    /\ running' = Stopped(running, th[t].h)
    /\ th' = [th EXCEPT ![t] = IdleThread]
    /\ UNCHANGED <<server_from_session_hash, last_port, extBound, ret, http,
                   observerVars, wireVars>>

NextConc ==
    \/ \E t \in Threads : T_StartBegin(t)
    \/ \E t \in Threads : T_Probe(t)
    \/ \E t \in Threads : T_Launch(t)
    \/ \E t \in Threads : T_Record(t)
    \/ \E t \in Threads : T_SetLast(t)
    \/ \E t \in Threads : T_Close(t)
    \/ \E t \in Threads : T_StopPop(t)
    \/ \E t \in Threads : T_StopStop(t)

SpecConc == Init /\ [][NextConc]_vars

\* C9: under every interleaving of concurrent start_server and stop_server
\* calls for different ids, two sessions are never recorded on the same
\* port, no two running backends share a port, and two calls that both
\* passed the probe hold different ports.
C9_ConcurrentDistinctPorts ==
    /\ \A a, b \in Registered :
          a # b => get_port(server_from_session_hash[a])
                      # get_port(server_from_session_hash[b])
    /\ \A g, h \in running : g # h => get_port(g) # get_port(h)
    /\ \A t, u \in Threads :
          (t # u /\ th[t].pc \in {"launch", "record", "setlast", "close"}
                 /\ th[u].pc \in {"launch", "record", "setlast", "close"})
             => th[t].port # th[u].port

\* C9 witness: two start_server calls for different ids that read the same
\* _last_port, so began their scans at the same port, have both recorded
\* their session and not yet returned.
C9_Witness ==
    /\ th["t1"].pc = "close" /\ th["t2"].pc = "close"
    /\ th["t1"].id # th["t2"].id
    /\ th["t1"].start_port = th["t2"].start_port
    /\ Cardinality(Registered) = 2

\* ------------------------------------------------------------- HTTP proxy
\* The route GET /viser/{server_id}/{proxy_path:path}.  The handler runs on
\* the event loop: the lookup and the target URL are computed without
\* suspending, the request to the backend is sent after an await.

IdleRequest == [pc |-> "idle", server_id |-> "", port |-> 0, status |-> 0,
                delivered |-> NoServer]

\* Mutant: the handler does not test the lookup's result.
ProxyLookup_NoCheck(server_id) ==
    /\ http.pc = "idle"
    /\ http' = [pc |-> "sending", server_id |-> server_id,
                port |-> get_port(server_from_session_hash[server_id]),
                status |-> 0, delivered |-> NoServer]
    /\ UNCHANGED <<managerVars, th, observerVars, wireVars>>

\* Lines 39-51: the registry lookup; "Server not found" with status 404, or
\* the target URL with the server's port.
ProxyLookup(server_id) ==
    /\ http.pc = "idle"
    /\ LET server == server_from_session_hash[server_id]
       IN  IF server = NoServer
           THEN http' = [pc |-> "done", server_id |-> server_id, port |-> 0,
                         status |-> 404, delivered |-> NoServer]
           ELSE http' = [pc |-> "sending", server_id |-> server_id,
                         port |-> get_port(server), status |-> 0,
                         delivered |-> NoServer]
    /\ UNCHANGED <<managerVars, th, observerVars, wireVars>>

\* Lines 54-77: the request goes to whatever listens on 127.0.0.1:<port> now;
\* the backend's answer is passed on (200 stands for it), and a refused
\* connection raises out of the handler (status 500).
ProxySend ==
    /\ http.pc = "sending"
    /\ \/ \E h \in running :
            /\ get_port(h) = http.port
            /\ http' = [http EXCEPT !.pc = "done", !.status = 200,
                                    !.delivered = h]
       \/ /\ http.port \notin BackendPorts(running)
          /\ http' = [http EXCEPT !.pc = "done", !.status = 500]
    /\ UNCHANGED <<managerVars, th, observerVars, wireVars>>

\* The response is returned; the route takes the next request.
ProxyReturn ==
    /\ http.pc = "done"
    /\ http' = IdleRequest
    /\ UNCHANGED <<managerVars, th, observerVars, wireVars>>

\* The page load of a session that has no server yet starts one (src/app.py,
\* demo.load), its unload stops it (demo.unload).
PageLoad(id) ==
    /\ server_from_session_hash[id] = NoServer
    /\ StartServer(id)
    /\ UNCHANGED <<http, th, observerVars, wireVars>>

PageUnload(id) ==
    /\ server_from_session_hash[id] # NoServer
    /\ StopServer(id)
    /\ UNCHANGED <<http, th, observerVars, wireVars>>

NextHttp ==
    \/ \E id \in TwoSessions : PageLoad(id)
    \/ \E id \in TwoSessions : PageUnload(id)
    \/ \E id \in TwoSessions : ProxyLookup(id)
    \/ ProxySend
    \/ ProxyReturn

SpecHttp == Init /\ [][NextHttp]_vars

MaxHeaders == 2

Methods == {"GET", "POST"}

\* Header names as the framework hands them to the handler (lower case).
HeaderNames == {"host", "accept-encoding", "cookie"}

HeaderValues == {"gzip", "identity"}

\* request.headers: the header fields in the order received; a name may come
\* more than once.
HeaderLists ==
    UNION {[1..n -> HeaderNames \X HeaderValues] : n \in 0..MaxHeaders}

Requests == [method : Methods, server_id : TwoSessions,
             proxy_path : {"", "a/b"}, query : {"", "x=1"},
             headers : HeaderLists, body : {"", "payload"}]

\* The values of the fields named `name`, in order.
RECURSIVE FieldValues(_, _)
FieldValues(hs, name) ==
    IF hs = <<>> THEN <<>>
    ELSE IF Head(hs)[1] = name
    THEN <<Head(hs)[2]>> \o FieldValues(Tail(hs), name)
    ELSE FieldValues(Tail(hs), name)

\* dict(request.headers): one entry per name, with the value of the name's
\* first field.
headers_dict(hs) ==
    [name \in {hs[i][1] : i \in 1..Len(hs)} |-> Head(FieldValues(hs, name))]

\* headers.pop(key, None)
dict_pop(d, key) == [name \in DOMAIN d \ {key} |-> d[name]]

\* headers[key] = value
dict_set(d, key, value) ==
    [name \in DOMAIN d \cup {key} |-> IF name = key THEN value ELSE d[name]]

\* The route is registered with @app.get: it matches GET requests only.
RouteMatches(req) == req.method = "GET"

path_suffix(proxy_path) == IF proxy_path # "" THEN "/" \o proxy_path ELSE "/"

\* client.build_request(method, url, headers, content) for the server found.
build_request(req, server) ==
    [status |-> 200, method |-> req.method, port |-> get_port(server),
     path |-> path_suffix(req.proxy_path), query |-> req.query,
     headers |-> dict_set(dict_pop(headers_dict(req.headers), "host"),
                          "accept-encoding", "identity"),
     content |-> req.body]

\* The answer to a request that is not forwarded.
Refused(status) == [NoProxied EXCEPT !.status = status]

\* The state after one successful start_server("s1") on a fresh manager.
FirstServer == [port |-> MinPort, gen |-> 0]

InitStarted ==
    /\ request = NoRequest
    /\ proxied_req = NoProxied
    /\ ws = IdleRelay
    /\ wire = NoFrames
    /\ server_from_session_hash =
          [s \in SessionIds |-> IF s = "s1" THEN FirstServer ELSE NoServer]
    /\ last_port = MinPort
    /\ running = {FirstServer}
    /\ extBound = {}
    /\ ret = [op |-> "start", id |-> "s1", outcome |-> "ok",
              handle |-> FirstServer, restart |-> NoServer, skipped |-> FALSE]
    /\ http = IdleRequest
    /\ th = [t \in Threads |-> IdleThread]
    /\ run = <<>>
    /\ runLive = TRUE
    /\ runClean = TRUE
    /\ runBase = MinPort - 1

\* A request comes in on /viser/<server_id>/<proxy_path>?<query>.
HttpArrive ==
    /\ request = NoRequest
    /\ request' \in Requests
    /\ UNCHANGED <<managerVars, http, th, observerVars, proxied_req, ws, wire>>

\* Lines 35-66: the router answers 405 for a method the route does not take;
\* the handler answers 404 for an unknown session and otherwise builds the
\* request for the backend.
HttpHandle ==
    /\ request # NoRequest
    /\ proxied_req = NoProxied
    /\ LET server == server_from_session_hash[request.server_id]
       IN  proxied_req' = IF ~RouteMatches(request) THEN Refused(405)
                          ELSE IF server = NoServer THEN Refused(404)
                          ELSE build_request(request, server)
    /\ UNCHANGED <<managerVars, http, th, observerVars, request, ws, wire>>

\* The response is returned.
HttpDone ==
    /\ proxied_req # NoProxied
    /\ request' = NoRequest
    /\ proxied_req' = NoProxied
    /\ UNCHANGED <<managerVars, http, th, observerVars, ws, wire>>

NextForward ==
    \/ HttpArrive
    \/ HttpHandle
    \/ HttpDone

SpecForward == InitStarted /\ [][NextForward]_vars

\* The request was forwarded: a request for the backend was built.
Forwarded == proxied_req.status = 200

\* C11: the request built for the backend of a registered session has no
\* Host header, has Accept-Encoding identity whatever came in, and has the
\* method, the body and, name by name, the remaining header fields of the
\* inbound request, as many and in the same order.
C11_ForwardedRequest ==
    Forwarded =>
        /\ "host" \notin DOMAIN proxied_req.headers
        /\ proxied_req.headers["accept-encoding"] = "identity"
        /\ proxied_req.method = request.method
        /\ proxied_req.content = request.body
        /\ \A name \in HeaderNames \ {"host", "accept-encoding"} :
              FieldValues(request.headers, name) =
                 IF name \in DOMAIN proxied_req.headers
                 THEN <<proxied_req.headers[name]>> ELSE <<>>

\* C12: a request for a registered session is forwarded to that session's
\* backend whatever its method, sub-path and query string.
C12_AnyMethodForwarded ==
    (proxied_req # NoProxied
     /\ server_from_session_hash[request.server_id] # NoServer) =>
        /\ Forwarded
        /\ proxied_req.port = get_port(server_from_session_hash[request.server_id])
        /\ proxied_req.path = path_suffix(request.proxy_path)
        /\ proxied_req.query = request.query

\* ------------------------------------------------------------- WebSocket relay
\* The route /viser/{server_id} (websocket_proxy).  The handler and its two
\* tasks are coroutines of one event loop: each action below is the code one
\* of them runs between two awaits.  A socket is closed for the relay when its
\* peer is gone or when the code called close on it.

\* Frames each peer sends over one connection.
MaxFrames == 2

\* The frames 1..n in the order sent (a frame's payload is its number).
FramesSent(n) == [i \in 1..n |-> i]

\* Mutant: the frame handed out is the newest one queued.
Received_Last(q) == q[Len(q)]

\* What receive_bytes() / recv() hands out: the oldest frame queued.
Received(q) == Head(q)

\* The frame a task holds between its receive and its send.
InHand(data) == IF data = 0 THEN <<>> ELSE <<data>>

\* The client socket is closed: the client went away, or websocket.close()
\* was called.
ClientClosed(w) == w.client_gone \/ w.close_code # 0

\* The backend connection is closed: the backend closed it, or
\* ws_target.close() was called.
TargetClosed(w) == w.backend_gone \/ w.target_closed

\* A task that has started and has not finished, failed or been cancelled.
Running(task) == task \in {"recv", "send"}

Finished(task) == task \in {"done", "failed"}

\* Mutant: the session is not looked up before the dial.
WsLookup_NoCheck(server_id) ==
    /\ ws.pc = "idle"
    /\ ws' = [IdleRelay EXCEPT !.pc = "connecting", !.server_id = server_id,
                 !.port = get_port(server_from_session_hash[server_id])]
    /\ UNCHANGED <<managerVars, http, th, observerVars, request, proxied_req,
                   wire>>

\* Lines 83-95: accept, the registry lookup, close 1008 for an unknown session
\* or the target URL with the server's port (the second test, of an empty
\* URL, never succeeds).
WsLookup(server_id) ==
    /\ ws.pc = "idle"
    /\ LET server == server_from_session_hash[server_id]
       IN  IF server = NoServer
           THEN ws' = [IdleRelay EXCEPT !.pc = "closed",
                          !.server_id = server_id, !.close_code = 1008]
           ELSE ws' = [IdleRelay EXCEPT !.pc = "connecting",
                          !.server_id = server_id, !.port = get_port(server)]
    /\ UNCHANGED <<managerVars, http, th, observerVars, request, proxied_req,
                   wire>>

\* Mutant: a failed dial leaves the handler without closing the client socket.
DialFailed_NoClose(w) == [w EXCEPT !.pc = "closed", !.dialed = TRUE]

\* Lines 139-141: the exception of the dial is caught and the client socket
\* closed with 1011.
DialFailed(w) == [w EXCEPT !.pc = "closed", !.dialed = TRUE, !.close_code = 1011]

\* Lines 99-127: the dial reaches whatever listens on 127.0.0.1:<port> now and
\* the two tasks are created, or it fails.
WsDial ==
    /\ ws.pc = "connecting"
    /\ \/ \E h \in running :
            /\ get_port(h) = ws.port
            /\ ws' = [ws EXCEPT !.pc = "relaying", !.dialed = TRUE,
                                !.target = h, !.fwd = "recv", !.bwd = "recv"]
       \/ /\ ws.port \notin BackendPorts(running)
          /\ ws' = DialFailed(ws)
    /\ UNCHANGED <<managerVars, http, th, observerVars, request, proxied_req,
                   wire>>

\* Line 105: receive_bytes() hands forward_to_target the next client frame.
FwdReceive ==
    /\ ws.fwd = "recv"
    /\ wire.inC # <<>>
    /\ ws' = [ws EXCEPT !.fwd = "send", !.fwd_data = Received(wire.inC)]
    /\ wire' = [wire EXCEPT !.inC = Tail(@)]
    /\ UNCHANGED <<managerVars, http, th, observerVars, request, proxied_req>>

\* Lines 107-111: receive_bytes() raises WebSocketDisconnect; the task closes
\* the backend connection and ends.
FwdDisconnect ==
    /\ ws.fwd = "recv"
    /\ wire.inC = <<>>
    /\ ClientClosed(ws)
    /\ ws' = [ws EXCEPT !.fwd = "done", !.target_closed = TRUE]
    /\ UNCHANGED <<managerVars, http, th, observerVars, request, proxied_req,
                   wire>>

\* Line 106: the frame is sent to the backend; on a closed connection send()
\* raises ConnectionClosed, which the task does not catch.
FwdSend ==
    /\ ws.fwd = "send"
    /\ IF TargetClosed(ws)
       THEN /\ ws' = [ws EXCEPT !.fwd = "failed", !.fwd_data = 0]
            /\ UNCHANGED wire
       ELSE /\ ws' = [ws EXCEPT !.fwd = "recv", !.fwd_data = 0]
            /\ wire' = [wire EXCEPT !.toB = Append(@, ws.fwd_data)]
    /\ UNCHANGED <<managerVars, http, th, observerVars, request, proxied_req>>

\* Line 117: recv() hands forward_from_target the next backend frame.
BwdReceive ==
    /\ ws.bwd = "recv"
    /\ wire.inB # <<>>
    /\ ws' = [ws EXCEPT !.bwd = "send", !.bwd_data = Received(wire.inB)]
    /\ wire' = [wire EXCEPT !.inB = Tail(@)]
    /\ UNCHANGED <<managerVars, http, th, observerVars, request, proxied_req>>

\* Lines 119-123: recv() raises ConnectionClosed; the task closes the client
\* socket (a RuntimeError of a second close is swallowed) and ends.
BwdClosed ==
    /\ ws.bwd = "recv"
    /\ wire.inB = <<>>
    /\ TargetClosed(ws)
    /\ ws' = [ws EXCEPT !.bwd = "done",
                        !.close_code = IF @ = 0 THEN 1000 ELSE @]
    /\ UNCHANGED <<managerVars, http, th, observerVars, request, proxied_req,
                   wire>>

\* Line 118: the frame is sent to the client; on a closed client socket
\* send_bytes() raises, and not ConnectionClosed, so the task does not catch it.
BwdSend ==
    /\ ws.bwd = "send"
    /\ IF ClientClosed(ws)
       THEN /\ ws' = [ws EXCEPT !.bwd = "failed", !.bwd_data = 0]
            /\ UNCHANGED wire
       ELSE /\ ws' = [ws EXCEPT !.bwd = "recv", !.bwd_data = 0]
            /\ wire' = [wire EXCEPT !.toC = Append(@, ws.bwd_data)]
    /\ UNCHANGED <<managerVars, http, th, observerVars, request, proxied_req>>

\* Mutant: the pending task is left running.
Cancelled_Never(task) == task

\* task.cancel() of a pending task: CancelledError ends it at its await.
Cancelled(task) == IF Running(task) THEN "cancelled" ELSE task

\* Lines 130-137: asyncio.wait returns once a task is finished; the handler
\* cancels what is pending.  The exception of a failed task is not retrieved.
WsFirstCompleted ==
    /\ ws.pc = "relaying"
    /\ Finished(ws.fwd) \/ Finished(ws.bwd)
    /\ ws' = [ws EXCEPT !.pc = "closing",
                        !.fwd = Cancelled(@), !.fwd_data = 0,
                        !.bwd = Cancelled(@), !.bwd_data = 0]
    /\ UNCHANGED <<managerVars, http, th, observerVars, request, proxied_req,
                   wire>>

\* Line 99, leaving the async with block: the backend connection is closed;
\* the handler returns.
WsExit ==
    /\ ws.pc = "closing"
    /\ ws' = [ws EXCEPT !.pc = "closed", !.target_closed = TRUE]
    /\ UNCHANGED <<managerVars, http, th, observerVars, request, proxied_req,
                   wire>>

\* The route takes the next connection.
WsNext ==
    /\ ws.pc = "closed"
    /\ ws' = IdleRelay
    /\ wire' = NoFrames
    /\ UNCHANGED <<managerVars, http, th, observerVars, request, proxied_req>>

\* The client sends a binary frame.
ClientSend ==
    /\ ws.pc \in {"connecting", "relaying"}
    /\ ~ClientClosed(ws)
    /\ wire.nC < MaxFrames
    /\ wire' = [wire EXCEPT !.nC = @ + 1, !.inC = Append(@, wire.nC + 1)]
    /\ UNCHANGED <<managerVars, http, th, observerVars, request, proxied_req,
                   ws>>

\* The client goes away.
ClientDisconnect ==
    /\ ws.pc \in {"connecting", "relaying"}
    /\ ~ws.client_gone
    /\ ws' = [ws EXCEPT !.client_gone = TRUE]
    /\ UNCHANGED <<managerVars, http, th, observerVars, request, proxied_req,
                   wire>>

\* The backend sends a binary frame.
BackendSend ==
    /\ ws.pc = "relaying"
    /\ ~TargetClosed(ws)
    /\ wire.nB < MaxFrames
    /\ wire' = [wire EXCEPT !.nB = @ + 1, !.inB = Append(@, wire.nB + 1)]
    /\ UNCHANGED <<managerVars, http, th, observerVars, request, proxied_req,
                   ws>>

\* The backend closes the connection.
BackendClose ==
    /\ ws.pc = "relaying"
    /\ ~ws.backend_gone
    /\ ws' = [ws EXCEPT !.backend_gone = TRUE]
    /\ UNCHANGED <<managerVars, http, th, observerVars, request, proxied_req,
                   wire>>

\* The relay after the backend h stopped: a connection to it is closed by
\* the backend.
BackendStopped(w, h) ==
    IF w.target = h /\ w.pc \in {"relaying", "closing"}
    THEN [w EXCEPT !.backend_gone = TRUE] ELSE w

\* demo.unload of a session that has a server: stop_server, whose
\* ViserServer.stop() ends the backend's connections.
RelayUnload(id) ==
    /\ server_from_session_hash[id] # NoServer
    /\ StopServer(id)
    /\ ws' = BackendStopped(ws, server_from_session_hash[id])
    /\ UNCHANGED <<http, th, observerVars, request, proxied_req, wire>>

NextRelay ==
    \/ \E id \in TwoSessions : WsLookup(id)
    \/ WsDial
    \/ FwdReceive
    \/ FwdDisconnect
    \/ FwdSend
    \/ BwdReceive
    \/ BwdClosed
    \/ BwdSend
    \/ WsFirstCompleted
    \/ WsExit
    \/ WsNext
    \/ ClientSend
    \/ ClientDisconnect
    \/ BackendSend
    \/ BackendClose
    \/ RelayUnload("s1")

SpecRelay == InitStarted /\ [][NextRelay]_vars

\* ------------------------------------------------------------- relay properties

\* C13: a relay request whose session id is not in the registry at the
\* lookup closes the client socket with 1008 at once, nothing follows but the
\* next connection, and a dial is made only by a handler that found its
\* session, so none is made for that request before or after the close.
C13_UnknownSessionClosed1008 ==
    [][/\ (ws.pc = "idle" /\ ws'.pc # "idle"
           /\ server_from_session_hash[ws'.server_id] = NoServer)
             => /\ ws'.pc = "closed"
                /\ ws'.close_code = 1008
                /\ ~ws'.dialed /\ ws'.target = NoServer
       /\ (ws.pc = "closed" /\ ws.close_code = 1008 /\ ws' # ws)
             => ws' = IdleRelay
       /\ (ws'.dialed /\ ~ws.dialed) => ws.pc = "connecting"
       /\ (ws'.pc = "connecting" /\ ws.pc # "connecting")
             => server_from_session_hash[ws'.server_id] # NoServer]_vars

\* C13 witness: the request of an unregistered id was closed with 1008 while
\* the backend of another session is running.
C13_Witness ==
    /\ ws.pc = "closed" /\ ws.close_code = 1008 /\ ~ws.dialed
    /\ ws.server_id \notin Registered
    /\ running # {}

\* C14: when the dial fails the handler closes the client socket with 1011
\* and ends with no task created and no backend connection; it fails whenever
\* nothing listens on the port.
C14_DialFailureCloses1011 ==
    [][(ws.pc = "connecting" /\ ws'.pc # "connecting"
        /\ (ws'.pc # "relaying" \/ ws.port \notin BackendPorts(running)))
          => /\ ws'.pc = "closed"
             /\ ws'.close_code = 1011
             /\ ws'.fwd = "none" /\ ws'.bwd = "none"
             /\ ws'.target = NoServer /\ ~ws'.target_closed]_vars

\* C14 witness: the session was stopped between the lookup and the dial, the
\* dial was refused and the client socket closed with 1011.
C14_Witness ==
    /\ ws.pc = "closed" /\ ws.close_code = 1011 /\ ws.dialed
    /\ ws.server_id \notin Registered
    /\ ws.fwd = "none" /\ ws.bwd = "none" /\ ws.target = NoServer

\* Both ends of the relay are healthy: both sockets open, both tasks running.
Healthy ==
    /\ ws.pc = "relaying"
    /\ ~ClientClosed(ws) /\ ~TargetClosed(ws)
    /\ Running(ws.fwd) /\ Running(ws.bwd)

\* q is the first Len(q) frames of the n sent.
IsPrefix(q, n) == Len(q) <= n /\ q = FramesSent(Len(q))

\* C15: what the backend got is always the first frames the client sent, in
\* order and once each, and while both ends are healthy every frame the
\* client sent is delivered, held by the forwarding task or queued, in that
\* order; the same from the backend to the client.
C15_FramesInOrder ==
    /\ IsPrefix(wire.toB, wire.nC)
    /\ IsPrefix(wire.toC, wire.nB)
    /\ Healthy =>
          /\ wire.toB \o InHand(ws.fwd_data) \o wire.inC = FramesSent(wire.nC)
          /\ wire.toC \o InHand(ws.bwd_data) \o wire.inB = FramesSent(wire.nB)

\* C15 witness: MaxFrames frames went each way over a healthy relay and all
\* arrived.
C15_Witness ==
    /\ Healthy
    /\ wire.toB = FramesSent(MaxFrames) /\ wire.toC = FramesSent(MaxFrames)
    /\ MaxFrames >= 2

\* C16: once a relay that was RELAYING is CLOSED, no task is running, the
\* client socket is closed if the backend closed its socket, and the backend
\* connection is closed if the client went away.
C16_PeerCloseClosesOther ==
    (ws.pc = "closed" /\ ws.target # NoServer) =>
        /\ ~Running(ws.fwd) /\ ~Running(ws.bwd)
        /\ ws.backend_gone => ClientClosed(ws)
        /\ ws.client_gone => TargetClosed(ws)

\* The phases of a relay.
Phase(pc) == IF pc = "connecting" THEN 1 ELSE IF pc = "relaying" THEN 2
             ELSE IF pc = "closing" THEN 3 ELSE IF pc = "closed" THEN 4 ELSE 0

\* C18: a relay changes phase only one step along CONNECTING, RELAYING,
\* CLOSING, CLOSED, but for a request that ends before it relays (unknown
\* session, failed dial), which goes straight to CLOSED; it leaves RELAYING
\* only when a forwarding task has finished, and from then on no forwarding
\* task is running: the one still pending was cancelled.
C18_RelayPhases ==
    /\ ws = IdleRelay
    /\ [][/\ ws'.pc # ws.pc =>
                \/ Phase(ws'.pc) = Phase(ws.pc) + 1
                \/ ws.pc = "closed" /\ ws' = IdleRelay
                \/ /\ ws.pc \in {"idle", "connecting"} /\ ws'.pc = "closed"
                   /\ ws'.target = NoServer /\ ws'.fwd = "none"
                   /\ ws'.bwd = "none"
          /\ (ws.pc = "relaying" /\ ws'.pc # "relaying")
                => /\ Finished(ws.fwd) \/ Finished(ws.bwd)
                   /\ ws'.fwd = IF Running(ws.fwd) THEN "cancelled" ELSE ws.fwd
                   /\ ws'.bwd = IF Running(ws.bwd) THEN "cancelled" ELSE ws.bwd
          /\ ws'.pc \in {"closing", "closed"}
                => ~Running(ws'.fwd) /\ ~Running(ws'.bwd)
          /\ ws'.pc = "relaying"
                => ws'.fwd # "none" /\ ws'.bwd # "none"]_vars

\* C18 witness: a relay is CLOSED after the client went away: forward_task
\* finished and backward_task, still pending, was cancelled.
C18_Witness ==
    /\ ws.pc = "closed"
    /\ ws.fwd = "done" /\ ws.bwd = "cancelled"
    /\ ws.client_gone /\ ~ws.backend_gone

\* C19: whenever a relay that dialed has ended, the client socket is closed
\* and, if a backend connection was made, it is closed.
C19_TerminationClosesBoth ==
    (ws.pc = "closed" /\ ws.dialed) =>
        /\ ClientClosed(ws)
        /\ ws.target # NoServer => ws.target_closed

\* ------------------------------------------------------------- relays and the session lifecycle
\* The relay of session s1 while the sessions s1 and s2 are started and
\* stopped by their page loads and unloads (worker threads), which run
\* between any two steps of the relay's handler.

\* demo.load of a session that has no server yet.
RelayLoad(id) ==
    /\ server_from_session_hash[id] = NoServer
    /\ StartServer(id)
    /\ UNCHANGED <<http, th, observerVars, wireVars>>

NextShared ==
    \/ \E id \in TwoSessions : RelayLoad(id)
    \/ \E id \in TwoSessions : RelayUnload(id)
    \/ WsLookup("s1")
    \/ WsDial
    \/ FwdDisconnect
    \/ BwdClosed
    \/ WsFirstCompleted
    \/ WsExit
    \/ WsNext
    \/ ClientDisconnect
    \/ BackendClose

SpecShared == Init /\ [][NextShared]_vars

\* C17: once stop_server(id) has completed, the port the session held is
\* free again, and a relay of id that is RELAYING has had its backend
\* connection closed, so that its tasks end and it does not stay RELAYING.
C17_StopEndsRelays ==
    /\ (ret.op = "stop" /\ ret.outcome = "ok")
          => get_port(ret.handle) \notin BoundPorts(running, extBound)
    /\ (ws.pc = "relaying" /\ server_from_session_hash[ws.server_id] = NoServer)
          => TargetClosed(ws)

\* C20: the backend a proxied request of session A is delivered to is never
\* the registry's entry of another session.
C20_NoCrossSessionDelivery ==
    [][(http'.delivered # NoServer /\ http.delivered = NoServer) =>
         \A b \in SessionIds :
            server_from_session_hash[b] = http'.delivered
               => b = http'.server_id]_vars

====
